---------------------------- MODULE Spec2Model ----------------------------
(***************************************************************************)
(* Student Record Manager: the StudentRecordManager class of               *)
(* src/student_manager.py as a state machine.                              *)
(*                                                                         *)
(* Python values are tagged records, so that a string never compares       *)
(* equal to a number and None is a value of its own:                       *)
(*   NoneV, StrV(s) (s a sequence of one-character strings), IntV(n),      *)
(*   BoolV(b), DictV(f) (f a function from keys to values), ListV(s).      *)
(* A student record is a DictV from field names to scalars, the store a     *)
(* DictV from identifiers to student records. Dict iteration order is not  *)
(* modelled: results that the code returns as lists of records are sets of *)
(* records here.                                                           *)
(***************************************************************************)
EXTENDS Integers, Sequences, FiniteSets, TLC

(***************************************************************************)
(* Bounds of the model.                                                    *)
(***************************************************************************)
MaxSuffix == 2      \* Spec: add_student is not called once this suffix is in use
MaxIOSuffix == 2    \* SpecIO: the same
MaxRecords == 3     \* SpecQuery: the same
MaxIds == 3         \* SpecIds: add_student is called on stores of fewer records
MaxAdds == 1001     \* SpecAdds: the same
MaxTime == 1        \* the clock (seconds) runs from 0 to MaxTime
MaxFail == 1        \* number of save_records calls that may hit an I/O error

(***************************************************************************)
(* Python values.                                                          *)
(***************************************************************************)
NoneV == [t |-> "none"]
StrV(s) == [t |-> "str", v |-> s]
IntV(n) == [t |-> "int", v |-> n]
BoolV(b) == [t |-> "bool", v |-> b]
DictV(f) == [t |-> "dict", v |-> f]
ListV(s) == [t |-> "list", v |-> s]

EmptyDict == DictV([k \in {} |-> NoneV])

\* The outcome of a call: a returned value or a raised exception.
Returned(x) == [kind |-> "return", v |-> x]
Raised(e) == [kind |-> "raise", v |-> [t |-> "exc", v |-> e]]

\* bool(value): the truthiness test of `if value` / `not self.students`.
Truthy(x) ==
    CASE x.t = "none" -> FALSE
      [] x.t = "str"  -> x.v # <<>>
      [] x.t = "int"  -> x.v # 0
      [] x.t = "bool" -> x.v
      [] x.t = "dict" -> DOMAIN x.v # {}
      [] x.t = "list" -> x.v # <<>>

\* a == b on the values of the model (values of different types are unequal).
PyEq(a, b) == a.t = b.t /\ (a.t = "none" \/ a.v = b.v)

(***************************************************************************)
(* Strings: str.lower, the `in` substring test, str.startswith, str(int),  *)
(* int(str) and the format specification 03d.                              *)
(***************************************************************************)
Upper == <<"A", "B", "C", "D", "E", "F", "G", "H", "I", "J", "K", "L", "M",
           "N", "O", "P", "Q", "R", "S", "T", "U", "V", "W", "X", "Y", "Z">>
Lower == <<"a", "b", "c", "d", "e", "f", "g", "h", "i", "j", "k", "l", "m",
           "n", "o", "p", "q", "r", "s", "t", "u", "v", "w", "x", "y", "z">>

LowerChar(c) ==
    IF \E i \in 1..Len(Upper) : Upper[i] = c
    THEN Lower[CHOOSE i \in 1..Len(Upper) : Upper[i] = c]
    ELSE c

StrLower(s) == [i \in 1..Len(s) |-> LowerChar(s[i])]

\* sub in s
Contains(sub, s) ==
    \E i \in 0..(Len(s) - Len(sub)) : SubSeq(s, i + 1, i + Len(sub)) = sub

StartsWith(s, prefix) ==
    Len(s) >= Len(prefix) /\ SubSeq(s, 1, Len(prefix)) = prefix

Digits == <<"0", "1", "2", "3", "4", "5", "6", "7", "8", "9">>

IsDigits(s) == s # <<>> /\ \A i \in 1..Len(s) : \E d \in 1..10 : Digits[d] = s[i]

DigitVal(c) == (CHOOSE d \in 1..10 : Digits[d] = c) - 1

RECURSIVE IntToStr(_)
\* str(n) / format(n, "d") for n >= 0
IntToStr(n) ==
    IF n < 10 THEN <<Digits[n + 1]>>
    ELSE IntToStr(n \div 10) \o <<Digits[(n % 10) + 1]>>

RECURSIVE ParseInt(_)
\* int(s) for a string of decimal digits
ParseInt(s) ==
    IF Len(s) = 1 THEN DigitVal(s[1])
    ELSE 10 * ParseInt(SubSeq(s, 1, Len(s) - 1)) + DigitVal(s[Len(s)])

RECURSIVE ZeroPad(_, _)
\* the 0<width>d format: zeros on the left up to width, never truncating
ZeroPad(s, width) == IF Len(s) >= width THEN s ELSE ZeroPad(<<"0">> \o s, width)

\* str(x) of a field value
StrOf(x) ==
    CASE x.t = "str"  -> x.v
      [] x.t = "int"  -> IntToStr(x.v)
      [] x.t = "none" -> <<"N", "o", "n", "e">>

(***************************************************************************)
(* The backing file and JSON. A file is absent or holds a text; the text   *)
(* is modelled by the JSON value it parses to, or "invalid" when it is not *)
(* JSON (which includes the empty and the truncated file).                 *)
(***************************************************************************)
Absent == [kind |-> "absent"]
Text(doc) == [kind |-> "text", doc |-> doc]
Invalid == [j |-> "invalid"]

RECURSIVE ToJson(_)
RECURSIVE ToJson_none_as_text(_)
\* A json.dump that writes None as the string "None".
ToJson_none_as_text(x) ==
    CASE x.t = "none" -> [j |-> "string", v |-> <<"N", "o", "n", "e">>]
      [] x.t = "int"  -> [j |-> "number", v |-> x.v]
      [] x.t = "str"  -> [j |-> "string", v |-> x.v]
      [] x.t = "dict" -> [j |-> "object", v |-> [k \in DOMAIN x.v |-> ToJson(x.v[k])]]
      [] x.t = "list" -> [j |-> "array", v |-> [i \in DOMAIN x.v |-> ToJson(x.v[i])]]

\* json.dump: None -> null, int -> number, str -> string, dict -> object, list -> array
ToJson(x) ==
    CASE x.t = "none" -> [j |-> "null"]
      [] x.t = "int"  -> [j |-> "number", v |-> x.v]
      [] x.t = "str"  -> [j |-> "string", v |-> x.v]
      [] x.t = "dict" -> [j |-> "object", v |-> [k \in DOMAIN x.v |-> ToJson(x.v[k])]]
      [] x.t = "list" -> [j |-> "array", v |-> [i \in DOMAIN x.v |-> ToJson(x.v[i])]]

RECURSIVE FromJson(_)
\* json.load of a well-formed document
FromJson(d) ==
    CASE d.j = "null"   -> NoneV
      [] d.j = "number" -> IntV(d.v)
      [] d.j = "string" -> StrV(d.v)
      [] d.j = "object" -> DictV([k \in DOMAIN d.v |-> FromJson(d.v[k])])
      [] d.j = "array"  -> ListV([i \in DOMAIN d.v |-> FromJson(d.v[i])])

\* load_records: {} when the file is absent or json.load raises JSONDecodeError,
\* otherwise whatever json.load returns.
load_records(f) ==
    IF f.kind = "absent" THEN EmptyDict
    ELSE IF f.doc.j = "invalid" THEN EmptyDict
    ELSE FromJson(f.doc)

\* The outcomes of save_records. open(filename, 'w') may fail and leave the file as
\* it was; once opened the file is truncated, and a failing write leaves a prefix
\* of the document, which is not JSON.
IoOutcomes == {"ok", "open_fails", "write_fails"}

save_records(st, f, io) ==
    CASE io = "ok"          -> Text(ToJson(st))
      [] io = "open_fails"  -> f
      [] io = "write_fails" -> Text(Invalid)

(***************************************************************************)
(* Identifiers.                                                            *)
(***************************************************************************)
STU == <<"S", "T", "U">>
IdWidth == 3

\* max(ids). The candidates are tried from the largest down, which finds the
\* maximum in one pass over a large store.
SetMax(S) ==
    LET N == {0 - x : x \in S}
    IN  0 - (CHOOSE m \in N : \A y \in N : m <= y)

\* f"STU{new_id:03d}"
FormatId(n) == STU \o ZeroPad(IntToStr(n), IdWidth)

\* sid[3:]
Suffix(sid) == SubSeq(sid, Len(STU) + 1, Len(sid))

\* A generate_id that forgets to step past the highest identifier.
generate_id_without_increment(st) ==
    IF ~Truthy(st) THEN Returned(StrV(<<"S", "T", "U", "0", "0", "1">>))
    ELSE IF st.t # "dict" THEN Raised("AttributeError")
    ELSE LET keys == {sid \in DOMAIN st.v : StartsWith(sid, STU)}
             ids == {ParseInt(Suffix(sid)) : sid \in keys}
         IN  Returned(StrV(FormatId(IF ids # {} THEN SetMax(ids) ELSE 1)))

\* A generate_id that numbers the new record by the size of the store.
generate_id_by_count(st) ==
    IF ~Truthy(st) THEN Returned(StrV(<<"S", "T", "U", "0", "0", "1">>))
    ELSE IF st.t # "dict" THEN Raised("AttributeError")
    ELSE Returned(StrV(FormatId(Cardinality(DOMAIN st.v) + 1)))

generate_id(st) ==
    IF ~Truthy(st) THEN Returned(StrV(<<"S", "T", "U", "0", "0", "1">>))
    ELSE IF st.t # "dict" THEN Raised("AttributeError")
    ELSE LET keys == {sid \in DOMAIN st.v : StartsWith(sid, STU)}
         IN  IF \E sid \in keys : ~IsDigits(Suffix(sid)) THEN Raised("ValueError")
             ELSE LET ids == {ParseInt(Suffix(sid)) : sid \in keys}
                      new_id == IF ids # {} THEN SetMax(ids) + 1 ELSE 1
                  IN  Returned(StrV(FormatId(new_id)))

\* datetime.now().strftime(...): the seconds field, two digits; the rest of the
\* timestamp is constant over the run.
strftime(t) == StrV(ZeroPad(IntToStr(t), 2))

\* student_id in self.students
In(sid, st) ==
    IF st.t = "dict" THEN sid \in DOMAIN st.v
    ELSE \E i \in DOMAIN st.v : PyEq(st.v[i], StrV(sid))

\* d[key] = value on a dict
SetItem(d, key, value) ==
    DictV([k \in DOMAIN d.v \cup {key} |-> IF k = key THEN value ELSE d.v[k]])

\* del d[key]
DelItem(d, key) == DictV([k \in DOMAIN d.v \ {key} |-> d.v[k]])

(***************************************************************************)
(* State.                                                                  *)
(***************************************************************************)
VARIABLES
    students,   \* self.students
    file,       \* the content of self.filename
    now,        \* the clock, in seconds
    fails,      \* how many save_records calls have failed so far
    issued,     \* history: the identifiers add_student has returned, in order
    call,       \* the last call: its name and arguments
    ret         \* the outcome of the last call

vars == <<students, file, now, fails, issued, call, ret>>

valid_fields == {"name", "age", "grade", "email", "phone"}

\* The student dict add_student builds.
NewStudent(student_id, name, age, grade, email, phone, t1, t2) ==
    DictV([id |-> StrV(student_id), name |-> name, age |-> age, grade |-> grade,
           email |-> email, phone |-> phone,
           created_at |-> strftime(t1), updated_at |-> strftime(t2)])

\* An update loop without the allow-list test.
ApplyUpdate_any_field(student, kwargs, t) ==
    DictV([f \in DOMAIN student.v |->
        IF f = "updated_at" THEN strftime(t)
        ELSE IF f \in DOMAIN kwargs /\ kwargs[f].t # "none"
             THEN kwargs[f]
             ELSE student.v[f]])

\* The loop of update_student over kwargs, then the refresh of updated_at.
ApplyUpdate(student, kwargs, t) ==
    DictV([f \in DOMAIN student.v |->
        IF f = "updated_at" THEN strftime(t)
        ELSE IF f \in DOMAIN kwargs /\ f \in valid_fields /\ kwargs[f].t # "none"
             THEN kwargs[f]
             ELSE student.v[f]])

\* The effect of the save_records call that ends a mutation on st.
Save(st, io) ==
    /\ io # "ok" => fails < MaxFail
    /\ file' = save_records(st, file, io)
    /\ fails' = IF io = "ok" THEN fails ELSE fails + 1

\* __init__ on the file as it is: a new manager object.
Construct ==
    /\ students' = load_records(file)
    /\ issued' = <<>>
    /\ call' = [op |-> "__init__"]
    /\ ret' = Returned(NoneV)
    /\ UNCHANGED <<file, now, fails>>

\* Time passes between two calls.
Tick ==
    /\ now < MaxTime
    /\ now' = now + 1
    /\ UNCHANGED <<students, file, fails, issued, call, ret>>

\* add_student. t2 is the second reading of the clock (updated_at), which is the
\* first one or later. What the caller keeps of the result (issued) is the
\* caller's: see AddFrom and AddQuietly.
add_student(name, age, grade, email, phone, t2, io) ==
    LET gen == generate_id(students)
    IN  /\ call' = [op |-> "add_student"]
        /\ IF gen.kind = "raise"
           THEN /\ ret' = gen
                /\ t2 = now /\ io = "ok"
                /\ UNCHANGED <<students, file, now, fails>>
           ELSE /\ t2 \in now..MaxTime /\ t2 <= now + 1
                /\ now' = t2
                /\ IF students.t # "dict"
                   THEN \* item assignment on a list with a str index
                        /\ ret' = Raised("TypeError")
                        /\ io = "ok"
                        /\ UNCHANGED <<students, file, fails>>
                   ELSE LET student_id == gen.v.v
                            student == NewStudent(student_id, name, age, grade,
                                                  email, phone, now, t2)
                        IN  /\ students' = SetItem(students, student_id, student)
                            /\ Save(students', io)
                            /\ ret' = IF io = "ok" THEN Returned(StrV(student_id))
                                      ELSE Raised("OSError")

update_student(student_id, kwargs, io) ==
    /\ call' = [op |-> "update_student", id |-> student_id, kwargs |-> kwargs]
    /\ UNCHANGED <<now, issued>>
    /\ IF ~In(student_id, students)
       THEN /\ ret' = Returned(BoolV(FALSE))
            /\ io = "ok"
            /\ UNCHANGED <<students, file, fails>>
       ELSE /\ students' = SetItem(students, student_id,
                                   ApplyUpdate(students.v[student_id], kwargs, now))
            /\ Save(students', io)
            /\ ret' = IF io = "ok" THEN Returned(BoolV(TRUE)) ELSE Raised("OSError")

\* A delete_student that saves whether or not it found the record.
delete_student_always_saves(student_id, io) ==
    /\ call' = [op |-> "delete_student", id |-> student_id]
    /\ UNCHANGED <<now, issued>>
    /\ students' = IF In(student_id, students) THEN DelItem(students, student_id)
                   ELSE students
    /\ Save(students', io)
    /\ ret' = IF io # "ok" THEN Raised("OSError")
              ELSE Returned(BoolV(In(student_id, students)))

delete_student(student_id, io) ==
    /\ call' = [op |-> "delete_student", id |-> student_id]
    /\ UNCHANGED <<now, issued>>
    /\ IF In(student_id, students)
       THEN /\ students' = DelItem(students, student_id)
            /\ Save(students', io)
            /\ ret' = IF io = "ok" THEN Returned(BoolV(TRUE)) ELSE Raised("OSError")
       ELSE /\ ret' = Returned(BoolV(FALSE))
            /\ io = "ok"
            /\ UNCHANGED <<students, file, fails>>

(***************************************************************************)
(* Queries.                                                                *)
(***************************************************************************)
\* A loop body that skips a criterion only when its value is None.
CriterionPasses_unless_none(student, key, value) ==
    IF key \in DOMAIN student.v /\ value.t # "none"
    THEN LET field == student.v[key]
             notSub == value.t = "str"
                       /\ ~Contains(StrLower(value.v), StrLower(StrOf(field)))
         IN  ~notSub /\ PyEq(field, value)
    ELSE TRUE

\* The body of the loop over criteria: does one criterion let the student pass?
\* (if A: fail, elif B: fail -- the student passes when neither test fires.)
CriterionPasses(student, key, value) ==
    IF key \in DOMAIN student.v /\ Truthy(value)
    THEN LET field == student.v[key]
             notSub == value.t = "str"
                       /\ ~Contains(StrLower(value.v), StrLower(StrOf(field)))
         IN  ~notSub /\ PyEq(field, value)
    ELSE TRUE

Matches(student, criteria) ==
    \A key \in DOMAIN criteria : CriterionPasses(student, key, criteria[key])

\* The records search_students collects.
SearchResult(st, criteria) ==
    {st.v[sid] : sid \in {k \in DOMAIN st.v : Matches(st.v[k], criteria)}}

Records(S) == [t |-> "records", v |-> S]

search_students(criteria) ==
    /\ call' = [op |-> "search_students", criteria |-> criteria]
    /\ ret' = IF students.t # "dict" THEN Raised("AttributeError")
              ELSE Returned(Records(SearchResult(students, criteria)))
    /\ UNCHANGED <<students, file, now, fails, issued>>

RECURSIVE SumAges(_, _)
\* sum(ages)
SumAges(st, keys) ==
    IF keys = {} THEN 0
    ELSE LET k == CHOOSE x \in keys : TRUE
         IN  st.v[k].v["age"].v + SumAges(st, keys \ {k})

\* A rounding that cuts the third decimal off.
Round2_truncating(num, den) == (100 * num) \div den

\* round(num / den, 2), in hundredths. The quotient is a float; a tie (a third
\* decimal of exactly 5) needs den to be a multiple of 8 and is then resolved to
\* the even neighbour.
Round2(num, den) ==
    LET q == (100 * num) \div den
        r == (100 * num) % den
    IN  IF 2 * r < den THEN q
        ELSE IF 2 * r > den THEN q + 1
        ELSE IF q % 2 = 0 THEN q ELSE q + 1

\* The dict built by grades[grade] = grades.get(grade, 0) + 1.
GradeCounts(st) ==
    LET held == {st.v[k].v["grade"] : k \in DOMAIN st.v}
    IN  [g \in held |-> Cardinality({k \in DOMAIN st.v : st.v[k].v["grade"] = g})]

Stats(total, average, grades) ==
    [t |-> "stats",
     v |-> [total_students |-> total, average_age |-> average,
            grade_distribution |-> grades]]

statistics(st) ==
    IF ~Truthy(st) THEN Returned(Stats(0, 0, [g \in {} |-> 0]))
    ELSE IF st.t # "dict" THEN Raised("AttributeError")
    ELSE LET total_students == Cardinality(DOMAIN st.v)
         IN  Returned(Stats(total_students,
                            Round2(SumAges(st, DOMAIN st.v), total_students),
                            GradeCounts(st)))

get_statistics ==
    /\ call' = [op |-> "get_statistics"]
    /\ ret' = statistics(students)
    /\ UNCHANGED <<students, file, now, fails, issued>>

(***************************************************************************)
(* Inputs.                                                                 *)
(***************************************************************************)
Al == <<"A", "l">>
Bo == <<"B", "o">>

Student(name, age, grade, email, phone) ==
    [name |-> name, age |-> age, grade |-> grade, email |-> email, phone |-> phone]

\* Students as the menu hands them over (validated, blank contacts as None).
OneStudent == { Student(StrV(Al), IntV(10), StrV(<<"A">>), NoneV, NoneV) }

FewStudents ==
    { Student(StrV(Al), IntV(10), StrV(<<"A">>), NoneV, NoneV),
      Student(StrV(Bo), IntV(15), StrV(<<"B">>), StrV(<<"e">>), NoneV) }

ManyStudents ==
    { Student(StrV(Al), IntV(10), StrV(<<"A">>), NoneV, NoneV),
      Student(StrV(Al), IntV(20), StrV(<<"A">>), NoneV, NoneV),
      Student(StrV(Bo), IntV(15), StrV(<<"B">>), NoneV, NoneV) }

\* Identifiers a caller may name: those the bound lets exist.
IdInputs(bound) == {FormatId(n) : n \in 1..(bound + 1)}

NoArgs == [k \in {} |-> NoneV]

\* Keyword arguments of update_student: none; a field to set and one passed as
\* None; a field to set and two names outside the allow-list.
KwargsInputs ==
    { NoArgs,
      [name |-> NoneV, grade |-> StrV(<<"B">>)],
      [id |-> StrV(FormatId(9)), created_at |-> strftime(99), email |-> StrV(<<"e">>)] }

FewKwargs == { [grade |-> StrV(<<"B">>)] }

CriteriaInputs ==
    { NoArgs,
      [name |-> NoneV, age |-> NoneV, grade |-> NoneV],
      [name |-> StrV(<<>>)],
      [name |-> StrV(<<"a">>)],
      [name |-> StrV(<<"a", "l">>)],
      [name |-> StrV(Al)],
      [name |-> StrV(Al), grade |-> StrV(<<"A">>)],
      [name |-> StrV(Al), grade |-> StrV(<<>>)],
      [age |-> IntV(15)],
      [age |-> StrV(<<"1">>)],
      [house |-> StrV(<<"x">>)] }

\* The caller keeps every identifier add_student returns. add_student is called
\* on stores of fewer than bound records, at most bound + 1 times with success.
AddFrom(inputs, bound, ios) ==
    /\ Len(issued) <= bound
    /\ students.t = "dict" => Cardinality(DOMAIN students.v) < bound
    /\ \E a \in inputs, t2 \in 0..MaxTime, io \in ios :
            add_student(a.name, a.age, a.grade, a.email, a.phone, t2, io)
    /\ issued' = IF ret'.kind = "return" THEN Append(issued, ret'.v.v) ELSE issued

\* The caller keeps no history. add_student is not called once the suffix bound
\* is in use.
AddQuietly(inputs, bound, ios) ==
    /\ students.t = "dict" =>
          \A sid \in DOMAIN students.v : ParseInt(Suffix(sid)) < bound
    /\ \E a \in inputs, t2 \in 0..MaxTime, io \in ios :
            add_student(a.name, a.age, a.grade, a.email, a.phone, t2, io)
    /\ UNCHANGED issued

UpdateFrom(inputs, bound, ios) ==
    \E student_id \in IdInputs(bound), kwargs \in inputs, io \in ios :
        update_student(student_id, kwargs, io)

DeleteFrom(bound, ios) ==
    \E student_id \in IdInputs(bound), io \in ios : delete_student(student_id, io)

Search == \E criteria \in CriteriaInputs : search_students(criteria)

InitFiles ==
    { Absent, Text(Invalid), Text(ToJson(EmptyDict)),
      Text(ToJson(ListV(<<>>))), Text(ToJson(ListV(<<IntV(1)>>))) }

InitOn(files, t) ==
    /\ file \in files
    /\ students = load_records(file)
    /\ now = t
    /\ fails = 0
    /\ issued = <<>>
    /\ call = [op |-> "__init__"]
    /\ ret = Returned(NoneV)

(***************************************************************************)
(* Spec: one manager, constructed on any file, its mutations in any order  *)
(* while time passes; every save succeeds.                                 *)
(***************************************************************************)
Init == InitOn(InitFiles, 0)

Add == AddQuietly(OneStudent, MaxSuffix, {"ok"})
Update == UpdateFrom(KwargsInputs, MaxSuffix, {"ok"})
Delete == DeleteFrom(MaxSuffix, {"ok"})

Next ==
    \/ Tick
    \/ Add
    \/ Update
    \/ Delete

Spec == Init /\ [][Next]_vars

(***************************************************************************)
(* SpecIds: the identifiers one manager hands out over adds and deletes.   *)
(* The clock stands still and every save succeeds.                         *)
(***************************************************************************)
InitIds == InitOn(InitFiles, MaxTime)

AddId == AddFrom(FewStudents, MaxIds, {"ok"})
UpdateId == UpdateFrom(FewKwargs, MaxIds, {"ok"})
DeleteId == DeleteFrom(MaxIds, {"ok"})

NextIds ==
    \/ AddId
    \/ UpdateId
    \/ DeleteId

SpecIds == InitIds /\ [][NextIds]_vars

(***************************************************************************)
(* SpecIO: saves that may fail, and the program started again on the file  *)
(* the last run left. The clock stands still.                              *)
(***************************************************************************)
InitIO == InitOn(InitFiles, MaxTime)

AddIO == AddQuietly(FewStudents, MaxIOSuffix, IoOutcomes)
UpdateIO == UpdateFrom(FewKwargs, MaxIOSuffix, IoOutcomes)
DeleteIO == DeleteFrom(MaxIOSuffix, IoOutcomes)

NextIO ==
    \/ Construct
    \/ AddIO
    \/ UpdateIO
    \/ DeleteIO

SpecIO == InitIO /\ [][NextIO]_vars

(***************************************************************************)
(* SpecQuery: the queries, on the stores that adds, updates and deletes    *)
(* build. The clock stands still and every save succeeds.                  *)
(***************************************************************************)
InitQuery == InitOn(InitFiles, MaxTime)

AddQ == AddQuietly(ManyStudents, MaxRecords, {"ok"})
UpdateQ == UpdateFrom(FewKwargs, MaxRecords, {"ok"})
DeleteQ == DeleteFrom(MaxRecords, {"ok"})

NextQuery ==
    \/ AddQ
    \/ UpdateQ
    \/ DeleteQ
    \/ Search
    \/ get_statistics

SpecQuery == InitQuery /\ [][NextQuery]_vars

(***************************************************************************)
(* SpecAdds: an empty store and nothing but add_student.                   *)
(***************************************************************************)
InitAdds == InitOn({Absent}, MaxTime)

AddOnly == AddFrom(OneStudent, MaxAdds, {"ok"})

NextAdds == AddOnly

SpecAdds == InitAdds /\ [][NextAdds]_vars

(***************************************************************************)
(* Properties.                                                             *)
(***************************************************************************)
IsDict == students.t = "dict"

\* The number an identifier ends in.
SuffixNumber(sid) == ParseInt(Suffix(sid))

AllowList == {"name", "age", "grade", "email", "phone"}

\* C1: identifiers are never reused: every identifier add_student returns has a
\* suffix strictly greater than that of every identifier it returned before on
\* this manager, deleted or not.
C1_NeverReused ==
    \A i, j \in 1..Len(issued) :
        i < j => SuffixNumber(issued[i]) < SuffixNumber(issued[j])

\* C4: a successful update_student(id, kwargs) changes, in the record of id, only
\* the allow-listed fields passed with a value other than None, and updated_at,
\* which becomes the current time; id, created_at and every other field keep
\* their values, and every other record is left as it was.
C4_UpdateFrame ==
    [][\A student_id \in IdInputs(MaxSuffix), kwargs \in KwargsInputs :
        (update_student(student_id, kwargs, "ok") /\ ret' = Returned(BoolV(TRUE)))
        => /\ IsDict /\ IsDict'
           /\ DOMAIN students'.v = DOMAIN students.v
           /\ \A other \in DOMAIN students.v \ {student_id} :
                students'.v[other] = students.v[other]
           /\ LET old == students.v[student_id].v
                  new == students'.v[student_id].v
              IN  /\ DOMAIN new = DOMAIN old
                  /\ \A f \in DOMAIN old :
                        new[f] = IF f = "updated_at" THEN strftime(now)
                                 ELSE IF /\ f \in AllowList
                                         /\ f \in DOMAIN kwargs
                                         /\ kwargs[f] # NoneV
                                      THEN kwargs[f]
                                      ELSE old[f]
                  /\ new["id"] = old["id"]
                  /\ new["created_at"] = old["created_at"]]_vars

\* C4 witness: an update that was passed id and created_at (and an email) has
\* succeeded on a record created earlier, next to another record.
C4_Witness ==
    /\ call.op = "update_student"
    /\ ret = Returned(BoolV(TRUE))
    /\ "created_at" \in DOMAIN call.kwargs
    /\ Cardinality(DOMAIN students.v) = 2
    /\ LET r == students.v[call.id].v
       IN  /\ r["email"] = StrV(<<"e">>)
           /\ r["id"] = StrV(call.id)
           /\ r["created_at"] = strftime(0)
           /\ r["updated_at"] = strftime(1)

\* Every record is stored under its own identifier.
KeyIsId == IsDict => \A sid \in DOMAIN students.v : students.v[sid].v["id"] = StrV(sid)

\* C5: identifiers are unique in every reachable state: every record's id field is
\* the key it is stored under, and add_student never returns an identifier that
\* is a key of the mapping: it overwrites no record, and the mapping grows by
\* exactly one.
C5_UniqueIds ==
    [][/\ KeyIsId'
       /\ (AddId /\ ret'.kind = "return")
          => /\ ret'.v.v \notin DOMAIN students.v
             /\ DOMAIN students'.v = DOMAIN students.v \cup {ret'.v.v}
             /\ Cardinality(DOMAIN students'.v) = Cardinality(DOMAIN students.v) + 1
             /\ \A sid \in DOMAIN students.v : students'.v[sid] = students.v[sid]]_vars

\* C5 witness: add_student has returned after a record with a smaller suffix was
\* deleted, so the store has a gap below its newest record.
C5_Witness ==
    /\ call.op = "add_student"
    /\ ret = Returned(StrV(FormatId(3)))
    /\ IsDict
    /\ DOMAIN students.v = {FormatId(2), FormatId(3)}
    /\ students.v[FormatId(3)].v["id"] = StrV(FormatId(3))

\* What a call that did not find its record must leave behind.
NotFoundOutcome ==
    /\ ret' = Returned(BoolV(FALSE))
    /\ students' = students
    /\ file' = file

\* C3: update_student or delete_student on an identifier that is no key of the
\* store returns False without raising and leaves the mapping (every record and
\* field) and the backing file as they were: no save is performed.
C3_NotFoundChangesNothing ==
    [][\A student_id \in IdInputs(MaxIOSuffix) :
        ~In(student_id, students) =>
            /\ \A kwargs \in FewKwargs, io \in IoOutcomes :
                   update_student(student_id, kwargs, io) => NotFoundOutcome
            /\ \A io \in IoOutcomes :
                   delete_student(student_id, io) => NotFoundOutcome]_vars

\* C3 witness: a call did not find its record in a store that holds records and
\* whose file, after a failed save, differs from it.
C3_Witness ==
    /\ call.op \in {"update_student", "delete_student"}
    /\ ret = Returned(BoolV(FALSE))
    /\ IsDict
    /\ DOMAIN students.v # {}
    /\ file # Text(ToJson(students))
    /\ fails > 0

Mutations == {"add_student", "update_student", "delete_student"}

\* C6: after every add_student, and every update_student or delete_student on an
\* existing identifier, that completes without a save error, the backing file
\* holds the in-memory mapping, record for record and field for field; and as
\* long as no save has failed, loading the file gives the in-memory mapping.
C6_FileMirrorsStore ==
    /\ (/\ call.op \in Mutations
        /\ ret.kind = "return"
        /\ ret.v # BoolV(FALSE))
       => /\ file.kind = "text"
          /\ file.doc.j = "object"
          /\ FromJson(file.doc) = students
    /\ fails = 0 => load_records(file) = students

\* C6 witness: a mutation has succeeded after an earlier save failed, on a store
\* holding a record with a None field and one with no None contact.
C6_Witness ==
    /\ call.op = "update_student"
    /\ ret = Returned(BoolV(TRUE))
    /\ fails > 0
    /\ Cardinality(DOMAIN students.v) = 2
    /\ \E sid \in DOMAIN students.v : students.v[sid].v["email"] = NoneV
    /\ \E sid \in DOMAIN students.v : students.v[sid].v["email"] # NoneV

\* C10: load_records never raises and always yields a mapping: the empty one
\* when the file is absent or does not hold a JSON mapping, and the saved mapping
\* when it holds one.
C10_LoadYieldsMapping ==
    call.op = "__init__" =>
        /\ ret.kind = "return"
        /\ IsDict
        /\ IF file.kind = "text" /\ file.doc.j = "object"
           THEN ToJson(students) = file.doc
           ELSE students = EmptyDict

AllRecords == {students.v[sid] : sid \in DOMAIN students.v}

Blank(value) == value = NoneV \/ value = StrV(<<>>)

\* The matching rule as stated: a string criterion matches when, lower-cased, it
\* is a substring of the lower-cased stringified field; any other criterion
\* matches when it equals the field. Blank criteria and criteria naming no field
\* of the record do not restrict.
StatedMatch(student, criteria) ==
    \A key \in DOMAIN criteria :
        (key \in DOMAIN student.v /\ ~Blank(criteria[key])) =>
            IF criteria[key].t = "str"
            THEN Contains(StrLower(criteria[key].v), StrLower(StrOf(student.v[key])))
            ELSE PyEq(student.v[key], criteria[key])

\* C2: search_students returns exactly the records that match all the non-empty
\* criteria, a string criterion matching by case-insensitive substring (name
\* "a" matches a record named "Al") and any other criterion by equality.
C2_SearchBySubstring ==
    (call.op = "search_students" /\ IsDict) =>
        ret = Returned(Records({r \in AllRecords : StatedMatch(r, call.criteria)}))

\* The criteria without the blank ones, and with one more.
Stripped(criteria) ==
    [key \in {k \in DOMAIN criteria : ~Blank(criteria[k])} |-> criteria[key]]

With(criteria, key, value) ==
    [k \in DOMAIN criteria \cup {key} |-> IF k = key THEN value ELSE criteria[k]]

\* C8: in search_students a criterion whose value is None or the empty string
\* counts as omitted: the search returns what it returns without its blank
\* criteria and what it returns with one more blank criterion, and a search
\* with no non-blank criterion returns every record.
C8_BlankIsOmitted ==
    (call.op = "search_students" /\ IsDict) =>
        /\ ret = Returned(Records(SearchResult(students, Stripped(call.criteria))))
        /\ \A key \in {"name", "age", "grade", "email"} \ DOMAIN call.criteria :
             \A blank \in {NoneV, StrV(<<>>)} :
                SearchResult(students, With(call.criteria, key, blank)) = ret.v.v
        /\ DOMAIN Stripped(call.criteria) = {} => ret.v.v = AllRecords

\* C8 witness: a search with a name and a blank grade has returned some of the
\* records and not all.
C8_Witness ==
    /\ call.op = "search_students"
    /\ IsDict
    /\ call.criteria = [name |-> StrV(Al), grade |-> StrV(<<>>)]
    /\ ret.kind = "return"
    /\ ret.v.v # {}
    /\ ret.v.v # AllRecords

AgeOf(sid) == students.v[sid].v["age"].v
GradeOf(sid) == students.v[sid].v["grade"]

RECURSIVE AgeTotal(_)
\* The sum of the ages, age by age: each age times the number of records of it.
AgeTotal(ages) ==
    IF ages = {} THEN 0
    ELSE LET a == CHOOSE x \in ages : TRUE
         IN  a * Cardinality({sid \in DOMAIN students.v : AgeOf(sid) = a})
             + AgeTotal(ages \ {a})

RECURSIVE CountTotal(_, _)
CountTotal(dist, grades) ==
    IF grades = {} THEN 0
    ELSE LET g == CHOOSE x \in grades : TRUE
         IN  dist[g] + CountTotal(dist, grades \ {g})

Distance(a, b) == IF a >= b THEN a - b ELSE b - a

\* C9: get_statistics returns the number of records as total_students; as
\* grade_distribution, for each grade some record holds, the number of records
\* holding it (no zero counts, the counts adding up to the total); as
\* average_age the sum of the ages over the number of records, rounded to two
\* decimals (in hundredths here); and 0, 0 and the empty distribution on an
\* empty store.
C9_Statistics ==
    (call.op = "get_statistics" /\ IsDict) =>
        /\ ret.kind = "return"
        /\ ret.v.t = "stats"
        /\ LET keys == DOMAIN students.v
               n == Cardinality(keys)
               dist == ret.v.v.grade_distribution
               average == ret.v.v.average_age
           IN  /\ ret.v.v.total_students = n
               /\ DOMAIN dist = {GradeOf(sid) : sid \in keys}
               /\ \A g \in DOMAIN dist :
                     /\ dist[g] = Cardinality({sid \in keys : GradeOf(sid) = g})
                     /\ dist[g] >= 1
               /\ CountTotal(dist, DOMAIN dist) = n
               /\ IF n = 0 THEN average = 0 /\ DOMAIN dist = {}
                  ELSE 2 * Distance(100 * AgeTotal({AgeOf(sid) : sid \in keys}),
                                    average * n) <= n

\* C9 witness: the statistics of three records of ages 10, 20 and 15 and grades
\* A, A and B: average 15.00, two A and one B.
C9_Witness ==
    /\ call.op = "get_statistics"
    /\ IsDict
    /\ {<<AgeOf(sid), GradeOf(sid)>> : sid \in DOMAIN students.v}
          = {<<10, StrV(<<"A">>)>>, <<20, StrV(<<"A">>)>>, <<15, StrV(<<"B">>)>>}
    /\ Cardinality(DOMAIN students.v) = 3
    /\ ret = Returned(Stats(3, 1500,
                [g \in {StrV(<<"A">>), StrV(<<"B">>)} |->
                    IF g = StrV(<<"A">>) THEN 2 ELSE 1]))

\* C7: from an empty store and with nothing but adds, the first add_student
\* returns "STU001", the k-th returns the identifier of suffix k, after N adds
\* the store holds N records and its largest suffix is N, and past 999 the
\* identifier grows a digit ("STU1000") instead of wrapping or colliding.
C7_SequentialIds ==
    LET n == Len(issued)
    IN  /\ IsDict
        /\ Cardinality(DOMAIN students.v) = n
        /\ \A sid \in DOMAIN students.v : SuffixNumber(sid) <= n
        /\ \A k \in 1..n :
             /\ StartsWith(issued[k], STU)
             /\ SuffixNumber(issued[k]) = k
             /\ issued[k] \in DOMAIN students.v
        /\ n >= 1 => /\ issued[1] = <<"S", "T", "U", "0", "0", "1">>
                     /\ ret = Returned(StrV(issued[n]))
        /\ n >= 999 => issued[999] = <<"S", "T", "U", "9", "9", "9">>
        /\ n >= 1000 => issued[1000] = <<"S", "T", "U", "1", "0", "0", "0">>

\* C7 witness: the hundredth add in a row has returned "STU100".
C7_Witness ==
    /\ Len(issued) = 100
    /\ call.op = "add_student"
    /\ ret = Returned(StrV(<<"S", "T", "U", "1", "0", "0">>))
    /\ Cardinality(DOMAIN students.v) = 100

=============================================================================
